---------------------------- MODULE Spec2Model ----------------------------
(***************************************************************************)
(* Model of utils/misc.py: post-processing of Markov-switching regression  *)
(* output.  Four pure functions are modelled, each under a specification   *)
(* of its own whose initial states draw the arguments of one call and      *)
(* whose actions are the steps of that call:                               *)
(*   identify_2_regimes             SpecIdentify2                          *)
(*   identify_3_regimes             SpecIdentify3                          *)
(*   build_3_regimes_summary_table,                                        *)
(*   build_3_regimes_summary        SpecSummary                            *)
(*   detect_tsm_classifications     SpecTsm                                *)
(*                                                                         *)
(* Numbers are fixed-point decimals: the integer v stands for v / One.     *)
(* An optional value (a key that may be absent, Python's None) is the      *)
(* empty tuple << >> or the one-element tuple <<v>>.                       *)
(***************************************************************************)
EXTENDS Integers, Sequences, FiniteSets, TLC

----------------------------------------------------------------------------
(* Bounds of the model *)

\* decimal digits carried by the fixed-point numbers
Scale == 1
\* spacing of the sampled const / sigma2 values, in units of 1 / One
Step == 5
\* const values are Step * (-MaxK .. MaxK), sigma2 values Step * (0 .. MaxK)
MaxK == 2
\* rounding precisions 0 .. MaxDecimals are tried besides None and the default
MaxDecimals == 1
\* the series of identify_3_regimes hold const keys of regimes 0 .. MaxRegime
MaxRegime == 3
\* the sampled sigma2 values of the summary table are One * k * k, k in 1 .. MaxRoot
MaxRoot == 2
\* at most MaxMissing entries are absent from the three series of a summary table
MaxMissing == 2
\* the signal matrices of detect_tsm_classifications have 0 .. MaxRows rows
MaxRows == 2

\* default of the decimals argument of identify_2_regimes
DefaultDecimals == 4

RECURSIVE Pow10(_)
Pow10(n) == IF n <= 0 THEN 1 ELSE 10 * Pow10(n - 1)

One == Pow10(Scale)

None == [kind |-> "None"]

----------------------------------------------------------------------------
(* identify_2_regimes *)

\* the six keys, in the order the try block reads them
RequiredKeys == << "p[0->0]", "p[1->0]", "const[0]", "const[1]", "sigma2[0]", "sigma2[1]" >>

ConstVals == { Step * k : k \in (0 - MaxK) .. MaxK }
VarVals   == { Step * k : k \in 0 .. MaxK }
ProbVals  == { One \div 5, One \div 2, (9 * One) \div 10 }

Opt(S) == { << >> } \cup { <<v>> : v \in S }

DecimalsArgs == Opt((0 .. MaxDecimals) \cup {DefaultDecimals})

\* Python's round(x, ndigits) on a number with Scale decimal digits:
\* to the nearest multiple of 10^-ndigits, a tie going to the even multiple.
Round(x, ndigits) ==
    IF ndigits >= Scale THEN x
    ELSE LET m == Pow10(Scale - ndigits)
             q == x \div m
             r == x % m
         IN  IF 2 * r < m THEN q * m
             ELSE IF 2 * r > m THEN (q + 1) * m
             ELSE IF q % 2 = 0 THEN q * m ELSE (q + 1) * m

VARIABLES
    args,       \* the arguments of the call being made
    pc,         \* the position in the function called
    loc,        \* the local variables of the function called
    printed,    \* the lines printed so far
    ret         \* << >> while the call runs, then <<value>> returned or <<Raised(..)>>

vars == << args, pc, loc, printed, ret >>

Raised(e) == [kind |-> "raise", error |-> e]

ParamsOf(o) == [ k \in { RequiredKeys[i] : i \in { j \in 1..6 : o[j] # << >> } } |->
                   o[ CHOOSE i \in 1..6 : RequiredKeys[i] = k ][1] ]

Init2 ==
    /\ \E p0 \in Opt(ProbVals), p1 \in Opt(ProbVals),
          c0 \in Opt(ConstVals), c1 \in Opt(ConstVals),
          s0 \in Opt(VarVals), s1 \in Opt(VarVals), d \in DecimalsArgs :
            args = [params |-> ParamsOf(<< p0, p1, c0, c1, s0, s1 >>), decimals |-> d]
    /\ pc = "try"
    /\ loc = << >>
    /\ printed = << >>
    /\ ret = << >>

\* the keys of RequiredKeys absent from the collection, as positions
MissingAt(p) == { i \in 1..6 : RequiredKeys[i] \notin DOMAIN p }

\* the key whose lookup raises KeyError: the first absent one in reading order
FirstMissing(p) == RequiredKeys[ CHOOSE i \in MissingAt(p) : \A j \in MissingAt(p) : i <= j ]

\* lines 24-29: the six values read from the collection
Bind(p) == [p11 |-> p["p[0->0]"], p21 |-> p["p[1->0]"],
            b1 |-> p["const[0]"], b2 |-> p["const[1]"],
            var1 |-> p["sigma2[0]"], var2 |-> p["sigma2[1]"]]

\* lines 34-35: the locals with the complementary probabilities added
WithComplements(l) ==
    [p11 |-> l.p11, p21 |-> l.p21, b1 |-> l.b1, b2 |-> l.b2,
     var1 |-> l.var1, var2 |-> l.var2, p12 |-> One - l.p11, p22 |-> One - l.p21]

\* mutant of RoundAll: b1 and b2 rounded from each other's value
RoundAllSwapped(l, d) ==
    [ n \in DOMAIN l |-> IF n = "b1" THEN Round(l.b2, d)
                         ELSE IF n = "b2" THEN Round(l.b1, d) ELSE Round(l[n], d) ]

\* lines 38-45: each of the eight locals rounded
RoundAll(l, d) == [ n \in DOMAIN l |-> Round(l[n], d) ]

\* line 47
regime1(l) == [beta0 |-> l.b1, var |-> l.var1, p11 |-> l.p11, p12 |-> l.p12]

\* mutant of regime2: the two transition probabilities exchanged
regime2Crossed(l) == [beta0 |-> l.b2, var |-> l.var2, p22 |-> l.p21, p21 |-> l.p22]

\* line 48
regime2(l) == [beta0 |-> l.b2, var |-> l.var2, p22 |-> l.p22, p21 |-> l.p21]

\* mutant of Classify: the comparisons of the bull regime not strict
ClassifyLoose(r1, r2) ==
    IF r1.beta0 >= 0 /\ r2.beta0 < 0 /\ r1.var <= r2.var
      THEN [kind |-> "dict", bull |-> r1, bear |-> r2]
    ELSE IF r2.beta0 >= 0 /\ r1.beta0 < 0 /\ r2.var <= r1.var
      THEN [kind |-> "dict", bull |-> r2, bear |-> r1]
    ELSE None

\* lines 50-64: the value returned from the two descriptors
Classify(r1, r2) ==
    IF r1.beta0 > 0 /\ r2.beta0 < 0 /\ r1.var < r2.var
      THEN [kind |-> "dict", bull |-> r1, bear |-> r2]
    ELSE IF r2.beta0 > 0 /\ r1.beta0 < 0 /\ r2.var < r1.var
      THEN [kind |-> "dict", bull |-> r2, bear |-> r1]
    ELSE None

\* lines 23-29: all six lookups succeed
Lookup ==
    /\ pc = "try"
    /\ MissingAt(args.params) = {}
    /\ loc' = Bind(args.params)
    /\ pc' = "complement"
    /\ UNCHANGED << args, printed, ret >>

\* mutant of LookupFails: the KeyError is not caught
LookupRaises ==
    /\ pc = "try"
    /\ MissingAt(args.params) # {}
    /\ ret' = << Raised("KeyError") >>
    /\ pc' = "done"
    /\ UNCHANGED << args, loc, printed >>

\* lines 30-32: a lookup raised KeyError, caught by the except clause
LookupFails ==
    /\ pc = "try"
    /\ MissingAt(args.params) # {}
    /\ printed' = Append(printed, << "Missing parameter", FirstMissing(args.params) >>)
    /\ ret' = <<None>>
    /\ pc' = "done"
    /\ UNCHANGED << args, loc >>

\* lines 34-35
Complement ==
    /\ pc = "complement"
    /\ loc' = WithComplements(loc)
    /\ pc' = "round"
    /\ UNCHANGED << args, printed, ret >>

\* lines 37-45
Rounding ==
    /\ pc = "round"
    /\ loc' = IF args.decimals # << >> THEN RoundAll(loc, args.decimals[1]) ELSE loc
    /\ pc' = "classify"
    /\ UNCHANGED << args, printed, ret >>

\* lines 47-64
BuildAndClassify ==
    /\ pc = "classify"
    /\ LET res == Classify(regime1(loc), regime2(loc))
       IN  /\ ret' = <<res>>
           /\ printed' = IF res = None THEN Append(printed, << "Mixed regimes" >>)
                         ELSE printed
    /\ pc' = "done"
    /\ UNCHANGED << args, loc >>

Next2 == Lookup \/ LookupFails \/ Complement \/ Rounding \/ BuildAndClassify

SpecIdentify2 == Init2 /\ [][Next2]_vars

\* identify_2_regimes(p, d) as a function of its arguments
Identify2(p, d) ==
    IF MissingAt(p) # {} THEN None
    ELSE LET l == WithComplements(Bind(p))
             r == IF d # << >> THEN RoundAll(l, d[1]) ELSE l
         IN  Classify(regime1(r), regime2(r))

Done2 == pc = "done" /\ MissingAt(args.params) = {}

\* the two descriptors the call built, by regime number, and the value returned
Built == << regime1(loc), regime2(loc) >>
Returned == ret[1]

\* (i, j): regime i has positive beta0, regime j negative beta0, and i the lower var
BullBear(d, i, j) == d[i].beta0 > 0 /\ d[j].beta0 < 0 /\ d[i].var < d[j].var

\* C1: with all six keys present, identify_2_regimes returns a {bull, bear}
\* mapping exactly when one built descriptor has beta0 > 0, the other beta0 < 0
\* and the positive one strictly the lower var; bull is then the positive one
\* and bear the other; in every other case None is returned.
Thm_C1 ==
    Done2 =>
        /\ Returned.kind = "dict" <=>
              \E i \in 1..2 : \E j \in (1..2) \ {i} : BullBear(Built, i, j)
        /\ \A i \in 1..2 : \A j \in (1..2) \ {i} :
              BullBear(Built, i, j) =>
                  Returned.bull = Built[i] /\ Returned.bear = Built[j]
        /\ Returned.kind # "dict" => Returned = None

\* a rounded call that names regime 1 (the second descriptor) bull
Wit_C1 ==
    /\ Done2
    /\ args.decimals # << >>
    /\ Returned.kind = "dict"
    /\ Returned.bull = Built[2]

\* C2: when at least one of the six keys is absent, the call returns None
\* without raising, and the one line printed names a key that is absent.
Thm_C2 ==
    (pc = "done" /\ MissingAt(args.params) # {}) =>
        /\ ret = <<None>>
        /\ Len(printed) = 1
        /\ printed[1][1] = "Missing parameter"
        /\ \E i \in MissingAt(args.params) : printed[1][2] = RequiredKeys[i]

\* two keys absent, the first one read being present
Wit_C2 ==
    /\ pc = "done"
    /\ Cardinality(MissingAt(args.params)) = 2
    /\ 1 \notin MissingAt(args.params)
    /\ ret = <<None>>

\* the value the claim gives each descriptor entry: the input, rounded when
\* decimals is set, a complement being taken before it is rounded
AsReturned(x) == IF args.decimals = << >> THEN x ELSE Round(x, args.decimals[1])

Descriptor0 ==
    [beta0 |-> AsReturned(args.params["const[0]"]),
     var   |-> AsReturned(args.params["sigma2[0]"]),
     p11   |-> AsReturned(args.params["p[0->0]"]),
     p12   |-> AsReturned(One - args.params["p[0->0]"])]

Descriptor1 ==
    [beta0 |-> AsReturned(args.params["const[1]"]),
     var   |-> AsReturned(args.params["sigma2[1]"]),
     p22   |-> AsReturned(One - args.params["p[1->0]"]),
     p21   |-> AsReturned(args.params["p[1->0]"])]

BullRegime(res) == IF "p11" \in DOMAIN res.bull THEN 0 ELSE 1

\* C10: if the call with rounding returns a mapping, the call with
\* decimals=None on the same parameters returns a mapping too and names the
\* same regime bull; when the unrounded call returns a mapping, the rounded
\* call returns None or the same bull regime.
Thm_C10 ==
    (Done2 /\ args.decimals # << >>) =>
        LET plain == Identify2(args.params, << >>)
        IN  /\ Returned.kind = "dict" =>
                  plain.kind = "dict" /\ BullRegime(plain) = BullRegime(Returned)
            /\ plain.kind = "dict" =>
                  \/ Returned = None
                  \/ Returned.kind = "dict" /\ BullRegime(Returned) = BullRegime(plain)

\* rounding removed a classification: the rounded call returned None where
\* the unrounded call names a bull regime
Wit_C10 ==
    /\ Done2
    /\ args.decimals # << >>
    /\ Returned = None
    /\ Identify2(args.params, << >>).kind = "dict"

----------------------------------------------------------------------------
(* Series and their keys *)

\* A key is the sequence of the tokens of its string: "const[1]" is
\* << "const", "[", "1", "]" >>.  A series is the sequence of its entries
\* [idx |-> key, val |-> number], in index order, no key twice.
Digits == << "0", "1", "2", "3", "4", "5", "6", "7", "8", "9" >>

\* f"{key}[{reg}]" for a regime index below ten
KeyOf(key, reg) == << key, "[", Digits[reg + 1], "]" >>

\* idx.startswith('const[')
StartsWithConst(idx) == Len(idx) >= 2 /\ idx[1] = "const" /\ idx[2] = "["

\* idx.split('[')[1]: the tokens between the first '[' and the next one
SplitSecond(idx) ==
    LET opens == { i \in 1..Len(idx) : idx[i] = "[" }
        first == CHOOSE i \in opens : \A j \in opens : i <= j
        later == { i \in opens : i > first }
        stop  == IF later = {} THEN Len(idx) + 1
                 ELSE CHOOSE i \in later : \A j \in later : i <= j
    IN  SubSeq(idx, first + 1, stop - 1)

\* s.rstrip(']')
RECURSIVE RStrip(_)
RStrip(s) == IF s # << >> /\ s[Len(s)] = "]" THEN RStrip(SubSeq(s, 1, Len(s) - 1)) ELSE s

\* int(s) for a string of digits
RECURSIVE IntOf(_)
IntOf(s) ==
    IF Len(s) = 0 THEN 0
    ELSE 10 * IntOf(SubSeq(s, 1, Len(s) - 1))
           + ((CHOOSE n \in 1..10 : Digits[n] = s[Len(s)]) - 1)

\* line 72: int(idx.split('[')[1].rstrip(']'))
RegimeIndex(idx) == IntOf(RStrip(SplitSecond(idx)))

\* series[idx]
At(series, idx) == series[CHOOSE i \in 1..Len(series) : series[i].idx = idx].val

Has(series, idx) == \E i \in 1..Len(series) : series[i].idx = idx

\* the stable ascending sort that sorted(xs, key=...) performs, rank[x]
\* being the key of x
RECURSIVE InsertSorted(_, _, _)
InsertSorted(sorted, x, rank) ==
    IF sorted = << >> THEN << x >>
    ELSE IF rank[sorted[Len(sorted)]] <= rank[x] THEN Append(sorted, x)
    ELSE Append(InsertSorted(SubSeq(sorted, 1, Len(sorted) - 1), x, rank), sorted[Len(sorted)])

RECURSIVE SortedBy(_, _)
SortedBy(xs, rank) ==
    IF xs = << >> THEN << >>
    ELSE InsertSorted(SortedBy(SubSeq(xs, 1, Len(xs) - 1), rank), xs[Len(xs)], rank)

\* a dict is the sequence of its items << key, value >> in insertion order
DictHas(d, k) == \E i \in 1..Len(d) : d[i][1] = k
DictGet(d, k) == d[CHOOSE i \in 1..Len(d) : d[i][1] = k][2]
DictSet(d, k, v) ==
    IF DictHas(d, k) THEN [ i \in 1..Len(d) |-> IF d[i][1] = k THEN << k, v >> ELSE d[i] ]
    ELSE Append(d, << k, v >>)
DictKeys(d) == [ i \in 1..Len(d) |-> d[i][1] ]

----------------------------------------------------------------------------
(* identify_3_regimes *)

\* lines 71-74: the constant of each regime index, in order of first appearance
RECURSIVE const_vals(_)
const_vals(estimates) ==
    IF estimates = << >> THEN << >>
    ELSE LET before == const_vals(SubSeq(estimates, 1, Len(estimates) - 1))
             e      == estimates[Len(estimates)]
         IN  IF StartsWithConst(e.idx) THEN DictSet(before, RegimeIndex(e.idx), e.val)
             ELSE before

\* mutant of sorted_by_const: descending
sorted_descending(cv) ==
    SortedBy(DictKeys(cv), [ r \in { cv[i][1] : i \in 1..Len(cv) } |-> 0 - DictGet(cv, r) ])

\* line 75
sorted_by_const(cv) ==
    SortedBy(DictKeys(cv), [ r \in { cv[i][1] : i \in 1..Len(cv) } |-> DictGet(cv, r) ])

\* mutant of Unpack3: the lowest, the second and the highest taken whatever the count
UnpackLenient(s) ==
    IF Len(s) >= 3
      THEN [kind |-> "dict",
            items |-> << << "Bull", s[Len(s)] >>, << "Bear", s[1] >>, << "Chop", s[2] >> >>]
      ELSE Raised("ValueError")

\* lines 76-81: the three-way unpacking and the mapping returned
Unpack3(s) ==
    IF Len(s) = 3
      THEN [kind |-> "dict",
            items |-> << << "Bull", s[3] >>, << "Bear", s[1] >>, << "Chop", s[2] >> >>]
      ELSE Raised("ValueError")

\* identify_3_regimes(estimates) as a function of its argument
Identify3(estimates) == Unpack3(sorted_by_const(const_vals(estimates)))

ConstSamples == { 0 - Step, 0, Step }

\* the sequences without repetition of elements of S
RECURSIVE Arrangements(_)
Arrangements(S) ==
    { << >> } \cup
    UNION { { << x >> \o t : t \in Arrangements(S \ {x}) } : x \in S }

\* seq with x inserted so that it becomes element number i
InsertAt(seq, i, x) == SubSeq(seq, 1, i - 1) \o << x >> \o SubSeq(seq, i, Len(seq))

\* a series entry of some other parameter, which the comprehension must skip
OtherEntry == [idx |-> KeyOf("sigma2", 0), val |-> Step]

Init3 ==
    /\ \E rs \in Arrangements(0 .. MaxRegime) :
         \E vs \in [1..Len(rs) -> ConstSamples] :
            LET consts == [ i \in 1..Len(rs) |-> [idx |-> KeyOf("const", rs[i]), val |-> vs[i]] ]
            IN  \/ args = [estimates |-> consts]
                \/ \E i \in 1..(Len(rs) + 1) :
                      args = [estimates |-> InsertAt(consts, i, OtherEntry)]
    /\ pc = "collect"
    /\ loc = << >>
    /\ printed = << >>
    /\ ret = << >>

\* lines 71-75
CollectAndSort ==
    /\ pc = "collect"
    /\ LET cv == const_vals(args.estimates)
       IN  loc' = [const_vals |-> cv, sorted_by_const |-> sorted_by_const(cv)]
    /\ pc' = "unpack"
    /\ UNCHANGED << args, printed, ret >>

\* lines 76-81, three regimes
UnpackAndReturn ==
    /\ pc = "unpack"
    /\ Len(loc.sorted_by_const) = 3
    /\ ret' = << Unpack3(loc.sorted_by_const) >>
    /\ pc' = "done"
    /\ UNCHANGED << args, loc, printed >>

\* line 76, any other number of regimes: the unpacking raises ValueError
UnpackRaises ==
    /\ pc = "unpack"
    /\ Len(loc.sorted_by_const) # 3
    /\ ret' = << Unpack3(loc.sorted_by_const) >>
    /\ pc' = "done"
    /\ UNCHANGED << args, loc, printed >>

Next3 == CollectAndSort \/ UnpackAndReturn \/ UnpackRaises

SpecIdentify3 == Init3 /\ [][Next3]_vars

\* the regime indices r for which the series given has a key const[r]
Regimes(series) == { r \in 0..9 : Has(series, KeyOf("const", r)) }

Const(r) == At(args.estimates, KeyOf("const", r))

\* C4: with const keys of exactly three regime indices, the mapping returned
\* has exactly the keys Bull, Bear, Chop, its values are a bijection onto the
\* three indices, and const[Bear] <= const[Chop] <= const[Bull], whatever the
\* order of the keys and also when constants are equal.
Thm_C4 ==
    (pc = "done" /\ Cardinality(Regimes(args.estimates)) = 3) =>
        /\ Returned.kind = "dict"
        /\ Len(Returned.items) = 3
        /\ { Returned.items[i][1] : i \in 1..3 } = { "Bull", "Bear", "Chop" }
        /\ { Returned.items[i][2] : i \in 1..3 } = Regimes(args.estimates)
        /\ LET m == Returned.items
           IN  /\ Const(DictGet(m, "Bear")) <= Const(DictGet(m, "Chop"))
               /\ Const(DictGet(m, "Chop")) <= Const(DictGet(m, "Bull"))

\* three regimes listed out of index order, two of them with equal constants,
\* among entries of another parameter
Wit_C4 ==
    /\ pc = "done"
    /\ Cardinality(Regimes(args.estimates)) = 3
    /\ Len(args.estimates) = 4
    /\ Returned.kind = "dict"
    /\ Const(DictGet(Returned.items, "Bear")) = Const(DictGet(Returned.items, "Chop"))
    /\ Const(DictGet(Returned.items, "Chop")) < Const(DictGet(Returned.items, "Bull"))
    /\ DictGet(Returned.items, "Bull") < DictGet(Returned.items, "Bear")

\* C5: when the series does not hold exactly three regimes, the call fails
\* with an error and returns no mapping.
Thm_C5 ==
    (pc = "done" /\ Cardinality(Regimes(args.estimates)) # 3) =>
        ret = << Raised("ValueError") >>

\* a series of four regimes was rejected
Wit_C5 ==
    /\ pc = "done"
    /\ Cardinality(Regimes(args.estimates)) = 4
    /\ Returned.kind = "raise"

----------------------------------------------------------------------------
(* build_3_regimes_summary_table and build_3_regimes_summary *)

\* A float that may be not-a-number: << >> is NaN, << v >> the number v.
NaN == << >>
Num(v) == << v >>

\* pd.isna(x)
isna(x) == x = NaN

\* the largest r in lo .. hi with r * r <= n, by bisection
RECURSIVE RootIn(_, _, _)
RootIn(n, lo, hi) ==
    IF lo >= hi THEN lo
    ELSE LET mid == (lo + hi + 1) \div 2
         IN  IF mid * mid <= n THEN RootIn(n, mid, hi) ELSE RootIn(n, lo, mid - 1)

\* np.sqrt(x): the fixed-point r with (r / One)^2 = v / One, NaN for NaN and
\* for a negative number; the model applies it to values that have such a root
sqrt(x) ==
    IF isna(x) \/ x[1] < 0 THEN NaN
    ELSE Num(RootIn(x[1] * One, 0, x[1] + One))

\* mutant of Get: the default is 0, not the one given
GetOrZero(series, idx, default) ==
    IF Has(series, idx) THEN Num(At(series, idx)) ELSE Num(0)

\* series.get(idx, default)
Get(series, idx, default) ==
    IF Has(series, idx) THEN Num(At(series, idx)) ELSE default

\* lines 93-98
param_keys == << << "const", "Constant" >>, << "ar.L1", "AR(1)" >>,
                 << "ar.L2", "AR(2)" >>, << "sigma2", "Std. Deviation" >> >>

\* line 100: ["Bull", "Bear", "Chop"].index(label)
LabelIndex(label) == CHOOSE i \in 0..2 : << "Bull", "Bear", "Chop" >>[i + 1] = label

\* mutant of SortedItems: the items in the iteration order of the dict
UnsortedItems(label_map) == label_map

\* line 100: sorted(label_map.items(), key=...)
SortedItems(label_map) ==
    SortedBy(label_map, [ it \in { label_map[i] : i \in 1..Len(label_map) } |->
                            LabelIndex(it[1]) ])

\* mutant of Estimate: no square root taken
EstimateRaw(key, est) == est

\* lines 104-105: the estimate shown
Estimate(key, est) == IF key = "sigma2" /\ ~ isna(est) THEN sqrt(est) ELSE est

\* lines 101-112: the four rows appended for one item of the label map
RowsOf(item, estimates, tvalues, pvalues) ==
    [ j \in 1..Len(param_keys) |->
        LET key == param_keys[j][1]
            idx == KeyOf(key, item[2])
        IN  [ Regime    |-> item[1],
              Parameter |-> param_keys[j][2],
              Estimate  |-> Estimate(key, Get(estimates, idx, NaN)),
              tstatistic |-> Get(tvalues, idx, NaN),
              pvalue    |-> Get(pvalues, idx, NaN) ] ]

\* lines 92-115 as a function: the rows of the table returned
RECURSIVE RowsOfAll(_, _, _, _)
RowsOfAll(items, estimates, tvalues, pvalues) ==
    IF items = << >> THEN << >>
    ELSE RowsOf(items[1], estimates, tvalues, pvalues)
           \o RowsOfAll(Tail(items), estimates, tvalues, pvalues)

BuildTable(estimates, tvalues, pvalues, label_map) ==
    RowsOfAll(SortedItems(label_map), estimates, tvalues, pvalues)

\* the keys of a fitted three-regime model, in the order of the series
ModelKeys(order) ==
    [ i \in 1..3 |-> << "const", order[i] >> ] \o
    [ i \in 1..3 |-> << "ar.L1", i - 1 >> ] \o
    [ i \in 1..3 |-> << "ar.L2", i - 1 >> ] \o
    [ i \in 1..3 |-> << "sigma2", i - 1 >> ]

PrefixNumber(key) == CHOOSE j \in 1..4 : param_keys[j][1] = key

\* sample series: every key with a value of its own in tvalues and pvalues
EstimatesOf(order, cs, ss) ==
    [ i \in 1..12 |->
        LET k == ModelKeys(order)[i]
        IN  [ idx |-> KeyOf(k[1], k[2]),
              val |-> IF k[1] = "const" THEN cs[k[2]]
                      ELSE IF k[1] = "sigma2" THEN ss[k[2]]
                      ELSE 3 * PrefixNumber(k[1]) + k[2] - 7 ] ]

StatsOf(base) ==
    [ i \in 1..12 |->
        LET k == ModelKeys(<< 0, 1, 2 >>)[i]
        IN  [ idx |-> KeyOf(k[1], k[2]), val |-> base + 3 * PrefixNumber(k[1]) + k[2] ] ]

RefConst == [ r \in 0..2 |-> (r - 1) * Step ]
RefSigma == [ r \in 0..2 |-> One * (r + 1) * (r + 1) ]
RefEstimates == EstimatesOf(<< 0, 1, 2 >>, RefConst, RefSigma)
RefTvalues == StatsOf(20)
RefPvalues == StatsOf(40)

SigmaVals == { One * k * k : k \in 1..MaxRoot }

\* the entries of series whose position is not in holes
RECURSIVE Without(_, _)
Without(series, holes) ==
    IF series = << >> THEN << >>
    ELSE LET rest == Without(SubSeq(series, 1, Len(series) - 1), holes)
         IN  IF Len(series) \in holes THEN rest ELSE Append(rest, series[Len(series)])

\* the label maps: Bull, Bear, Chop in any insertion order, each with any index
LabelMaps ==
    { [ i \in 1..3 |-> << ls[i], rs[i] >> ] :
        ls \in { a \in Arrangements({ "Bull", "Bear", "Chop" }) : Len(a) = 3 },
        rs \in [1..3 -> 0..2] }

LiteralMaps ==
    { << << "Bull", rs[1] >>, << "Bear", rs[2] >>, << "Chop", rs[3] >> >> :
        rs \in { a \in Arrangements(0..2) : Len(a) = 3 } }

\* sets of at most MaxMissing absent entries << series number, position >>
Holes == { {} } \cup { { f[i] : i \in 1..MaxMissing } :
                         f \in [1..MaxMissing -> (1..3) \X (1..12)] }

HolesOf(holes, n) == { h[2] : h \in { g \in holes : g[1] = n } }

\* build_3_regimes_summary_table called with complete series
InitTableFull ==
    \E ss \in [0..2 -> SigmaVals], lm \in LabelMaps :
        args = [entry |-> "table", estimates |-> EstimatesOf(<< 0, 1, 2 >>, RefConst, ss),
                tvalues |-> RefTvalues, pvalues |-> RefPvalues, label_map |-> lm]

\* build_3_regimes_summary_table called with entries absent from the series
InitTableMissing ==
    \E holes \in Holes, lm \in LiteralMaps :
        args = [entry |-> "table",
                estimates |-> Without(RefEstimates, HolesOf(holes, 1)),
                tvalues |-> Without(RefTvalues, HolesOf(holes, 2)),
                pvalues |-> Without(RefPvalues, HolesOf(holes, 3)),
                label_map |-> lm]

\* build_3_regimes_summary called, the series complete or without one constant
InitSummary ==
    \E order \in { a \in Arrangements(0..2) : Len(a) = 3 },
       cs \in [0..2 -> ConstSamples], gone \in SUBSET {1} :
        args = [entry |-> "summary",
                estimates |-> Without(EstimatesOf(order, cs, RefSigma), gone),
                tvalues |-> RefTvalues, pvalues |-> RefPvalues]

InitS ==
    /\ InitTableFull \/ InitTableMissing \/ InitSummary
    /\ pc = IF args.entry = "summary" THEN "identify" ELSE "sort"
    /\ loc = << >>
    /\ printed = << >>
    /\ ret = << >>

\* lines 127-128: the label map is derived and passed on
IdentifyLabels ==
    /\ pc = "identify"
    /\ LET label_map == Identify3(args.estimates)
       IN  /\ label_map.kind = "dict"
           /\ args' = [ n \in DOMAIN args \cup { "label_map" } |->
                          IF n = "label_map" THEN label_map.items ELSE args[n] ]
    /\ pc' = "sort"
    /\ UNCHANGED << loc, printed, ret >>

\* line 127: identify_3_regimes raises, and so does the wrapper
IdentifyRaises ==
    /\ pc = "identify"
    /\ LET label_map == Identify3(args.estimates)
       IN  /\ label_map.kind = "raise"
           /\ ret' = << label_map >>
    /\ pc' = "done"
    /\ UNCHANGED << args, loc, printed >>

\* lines 92-100: the items in the order the loop visits them
SortLabels ==
    /\ pc = "sort"
    /\ loc' = [rows |-> << >>, items |-> SortedItems(args.label_map)]
    /\ pc' = "loop"
    /\ UNCHANGED << args, printed, ret >>

\* lines 100-112: one pass of the outer loop
AppendRows ==
    /\ pc = "loop"
    /\ loc.items # << >>
    /\ loc' = [rows  |-> loc.rows \o RowsOf(loc.items[1], args.estimates,
                                             args.tvalues, args.pvalues),
               items |-> Tail(loc.items)]
    /\ UNCHANGED << args, pc, printed, ret >>

\* lines 114-115
ReturnFrame ==
    /\ pc = "loop"
    /\ loc.items = << >>
    /\ ret' = << [kind |-> "frame", rows |-> loc.rows] >>
    /\ pc' = "done"
    /\ UNCHANGED << args, loc, printed >>

NextS == IdentifyLabels \/ IdentifyRaises \/ SortLabels \/ AppendRows \/ ReturnFrame

SpecSummary == InitS /\ [][NextS]_vars

DoneTable == pc = "done" /\ args.entry = "table"

\* the (Regime, Parameter) keys of a table in the fixed order
FixedIndex ==
    [ n \in 1..12 |-> << << "Bull", "Bear", "Chop" >>[((n - 1) \div 4) + 1],
                         << "Constant", "AR(1)", "AR(2)", "Std. Deviation" >>[((n - 1) % 4) + 1] >> ]

FixedPrefix == [ n \in 1..12 |-> << "const", "ar.L1", "ar.L2", "sigma2" >>[((n - 1) % 4) + 1] ]

\* the key the claim has row n read: '<prefix>[<label_map[label]>]'
KeyOfRow(n) == KeyOf(FixedPrefix[n], DictGet(args.label_map, FixedIndex[n][1]))

\* C6: for a label map giving an index to each of Bull, Bear and Chop the
\* table has exactly 12 rows keyed Bull, Bear, Chop, each with Constant, AR(1),
\* AR(2), Std. Deviation, in this order whatever the iteration order of the
\* map and the indices in it, and row (label, parameter) is read from the key
\* '<prefix>[<label_map[label]>]'.
Thm_C6 ==
    DoneTable =>
        /\ Returned.kind = "frame"
        /\ Len(Returned.rows) = 12
        /\ \A n \in 1..12 :
              /\ << Returned.rows[n].Regime, Returned.rows[n].Parameter >> = FixedIndex[n]
              /\ Returned.rows[n].tstatistic = Get(args.tvalues, KeyOfRow(n), NaN)
              /\ Returned.rows[n].pvalue = Get(args.pvalues, KeyOfRow(n), NaN)
              /\ FixedPrefix[n] # "sigma2" =>
                    Returned.rows[n].Estimate = Get(args.estimates, KeyOfRow(n), NaN)

\* a label map iterated as Chop, Bear, Bull that gives two labels one index
Wit_C6 ==
    /\ DoneTable
    /\ DictKeys(args.label_map) = << "Chop", "Bear", "Bull" >>
    /\ DictGet(args.label_map, "Bull") = DictGet(args.label_map, "Chop")
    /\ Len(Returned.rows) = 12

\* x is the square root of the number v
IsRootOf(x, v) == x # NaN /\ x[1] >= 0 /\ x[1] * x[1] = v * One

\* C7: in the table, built directly or through build_3_regimes_summary, the
\* Estimate of row (label, Std. Deviation) is the square root of
\* estimates['sigma2[r]'], r the index of the label; every other Estimate is
\* the estimate looked up; t-statistic and p-value of every row are the
\* entries of tvalues and pvalues at the row's key.
Thm_C7 ==
    (pc = "done" /\ Returned.kind = "frame") =>
        \A n \in 1..12 :
            /\ Has(args.estimates, KeyOfRow(n)) =>
                  IF FixedPrefix[n] = "sigma2"
                    THEN IsRootOf(Returned.rows[n].Estimate, At(args.estimates, KeyOfRow(n)))
                    ELSE Returned.rows[n].Estimate = Num(At(args.estimates, KeyOfRow(n)))
            /\ Has(args.tvalues, KeyOfRow(n)) =>
                  Returned.rows[n].tstatistic = Num(At(args.tvalues, KeyOfRow(n)))
            /\ Has(args.pvalues, KeyOfRow(n)) =>
                  Returned.rows[n].pvalue = Num(At(args.pvalues, KeyOfRow(n)))

\* through the wrapper, regime 1 labelled Chop: sigma2[1] = 4 shows as 2
Wit_C7 ==
    /\ pc = "done"
    /\ args.entry = "summary"
    /\ Returned.kind = "frame"
    /\ DictGet(args.label_map, "Chop") = 1
    /\ At(args.estimates, KeyOf("sigma2", 1)) = 4 * One
    /\ Returned.rows[12].Estimate = Num(2 * One)
    /\ Returned.rows[12].tstatistic = Num(At(args.tvalues, KeyOf("sigma2", 1)))

\* some entry of the reference series is absent from the series given
SomeMissing ==
    \/ Len(args.estimates) < 12
    \/ Len(args.tvalues) < 12
    \/ Len(args.pvalues) < 12

\* the series given are the reference series less some entries
FromReference ==
    /\ \A i \in 1..Len(args.estimates) :
          Has(RefEstimates, args.estimates[i].idx)
            /\ At(RefEstimates, args.estimates[i].idx) = args.estimates[i].val
    /\ \A i \in 1..Len(args.tvalues) :
          Has(RefTvalues, args.tvalues[i].idx)
            /\ At(RefTvalues, args.tvalues[i].idx) = args.tvalues[i].val
    /\ \A i \in 1..Len(args.pvalues) :
          Has(RefPvalues, args.pvalues[i].idx)
            /\ At(RefPvalues, args.pvalues[i].idx) = args.pvalues[i].val

\* C8: whatever entries are absent from estimates, tvalues or pvalues, the
\* table is built with all its rows; the cell of an absent entry is NaN (no
\* square root applied) and every other cell holds the value it has when
\* nothing is missing.
Thm_C8 ==
    (DoneTable /\ FromReference) =>
        /\ Returned.kind = "frame"
        /\ Len(Returned.rows) = 12
        /\ LET full == BuildTable(RefEstimates, RefTvalues, RefPvalues, args.label_map)
           IN  \A n \in 1..12 :
                 /\ Returned.rows[n].Regime = full[n].Regime
                 /\ Returned.rows[n].Parameter = full[n].Parameter
                 /\ Returned.rows[n].Estimate =
                       IF Has(args.estimates, KeyOfRow(n)) THEN full[n].Estimate ELSE NaN
                 /\ Returned.rows[n].tstatistic =
                       IF Has(args.tvalues, KeyOfRow(n)) THEN full[n].tstatistic ELSE NaN
                 /\ Returned.rows[n].pvalue =
                       IF Has(args.pvalues, KeyOfRow(n)) THEN full[n].pvalue ELSE NaN

\* a sigma2 estimate and a t-value of another row are absent
Wit_C8 ==
    /\ DoneTable
    /\ FromReference
    /\ ~ Has(args.estimates, KeyOf("sigma2", 2))
    /\ ~ Has(args.tvalues, KeyOf("const", 0))
    /\ Len(args.pvalues) = 12
    /\ \E n \in 1..12 : Returned.rows[n].Parameter = "Std. Deviation"
                          /\ Returned.rows[n].Estimate = NaN
    /\ \E n \in 1..12 : Returned.rows[n].Parameter = "Std. Deviation"
                          /\ Returned.rows[n].Estimate # NaN

----------------------------------------------------------------------------
(* detect_tsm_classifications *)

\* A frame is [index, columns, data]: the set of its row labels, the set of
\* its column labels and a cell for every pair of them; a cell is a float
\* that may be NaN.  ground_truth is a series on the same row labels.
ColumnSets == { {}, { "x" }, { "x", "y" } }

\* predictions: 1, -1, an out-of-domain code; truths: 1, -1, missing
Predictions == { Num(1), Num(0 - 1), Num(0) }
Truths == { Num(1), Num(0 - 1), NaN }

InitT ==
    /\ \E n \in 0..MaxRows, cols \in ColumnSets :
         \E data \in [(1..n) \X cols -> Predictions], truth \in [1..n -> Truths] :
            args = [target_df    |-> [index |-> 1..n, columns |-> cols, data |-> data],
                    ground_truth |-> truth]
    /\ pc = "broadcast"
    /\ loc = << >>
    /\ printed = << >>
    /\ ret = << >>

\* lines 139-142: the prediction, the truth and the code of each assignment
Rules == << << 1, 1, 1 >>, << 0 - 1, 0 - 1, 2 >>, << 1, 0 - 1, 3 >>, << 0 - 1, 1, 4 >> >>

\* (target_df == a) & (gt_broadcast == b) at one cell
Mask(k, prediction, truth) ==
    prediction = Num(Rules[k][1]) /\ truth = Num(Rules[k][2])

\* mutant of Assign: the code goes to every cell whose prediction matches
AssignByPrediction(result, k, target, gt) ==
    [ c \in DOMAIN result |->
        IF target[c] = Num(Rules[k][1]) THEN Num(Rules[k][3]) ELSE result[c] ]

\* result[mask] = code, for the k-th assignment
Assign(result, k, target, gt) ==
    [ c \in DOMAIN result |->
        IF Mask(k, target[c], gt[c]) THEN Num(Rules[k][3]) ELSE result[c] ]

\* lines 134-135, at least one column: ground_truth once per column
Broadcast ==
    /\ pc = "broadcast"
    /\ args.target_df.columns # {}
    /\ loc' = [gt_broadcast |->
                 [ c \in args.target_df.index \X args.target_df.columns |->
                     args.ground_truth[c[1]] ]]
    /\ pc' = "allocate"
    /\ UNCHANGED << args, printed, ret >>

\* line 134, no column: pd.concat of an empty list raises ValueError
BroadcastRaises ==
    /\ pc = "broadcast"
    /\ args.target_df.columns = {}
    /\ ret' = << Raised("ValueError") >>
    /\ pc' = "done"
    /\ UNCHANGED << args, loc, printed >>

\* line 137: a frame of the shape of target_df, no cell set
Allocate ==
    /\ pc = "allocate"
    /\ loc' = [gt_broadcast |-> loc.gt_broadcast,
               result |-> [ c \in args.target_df.index \X args.target_df.columns |-> NaN ]]
    /\ pc' = "rule1"
    /\ UNCHANGED << args, printed, ret >>

ApplyRule(k, here, next) ==
    /\ pc = here
    /\ loc' = [ loc EXCEPT !.result = Assign(loc.result, k, args.target_df.data,
                                             loc.gt_broadcast) ]
    /\ pc' = next
    /\ UNCHANGED << args, printed, ret >>

\* line 139
Rule1 == ApplyRule(1, "rule1", "rule2")
\* line 140
Rule2 == ApplyRule(2, "rule2", "rule3")
\* line 141
Rule3 == ApplyRule(3, "rule3", "rule4")
\* line 142
Rule4 == ApplyRule(4, "rule4", "return")

\* line 143
ReturnResult ==
    /\ pc = "return"
    /\ ret' = << [kind |-> "frame", index |-> args.target_df.index,
                  columns |-> args.target_df.columns, data |-> loc.result] >>
    /\ pc' = "done"
    /\ UNCHANGED << args, loc, printed >>

NextT == Broadcast \/ BroadcastRaises \/ Allocate \/ Rule1 \/ Rule2 \/ Rule3 \/ Rule4
           \/ ReturnResult

SpecTsm == InitT /\ [][NextT]_vars

\* the code the claim gives a cell: (1,1) -> 1, (-1,-1) -> 2, (1,-1) -> 3,
\* (-1,1) -> 4, unset for any other pair
CodeOf(prediction, truth) ==
    IF prediction = Num(1) /\ truth = Num(1) THEN Num(1)
    ELSE IF prediction = Num(0 - 1) /\ truth = Num(0 - 1) THEN Num(2)
    ELSE IF prediction = Num(1) /\ truth = Num(0 - 1) THEN Num(3)
    ELSE IF prediction = Num(0 - 1) /\ truth = Num(1) THEN Num(4)
    ELSE NaN

\* the four assignments made in the given order on an unset frame
RECURSIVE AssignedIn(_, _, _, _)
AssignedIn(order, unset, target, gt) ==
    IF order = << >> THEN unset
    ELSE Assign(AssignedIn(SubSeq(order, 1, Len(order) - 1), unset, target, gt),
                order[Len(order)], target, gt)

\* what the claim says of a matrix returned for the call made
CellsAsClaimed ==
    /\ Returned.kind = "frame"
    /\ Returned.index = args.target_df.index
    /\ Returned.columns = args.target_df.columns
    /\ DOMAIN Returned.data = args.target_df.index \X args.target_df.columns
    /\ \A c \in DOMAIN Returned.data :
          /\ Returned.data[c] = CodeOf(args.target_df.data[c], args.ground_truth[c[1]])
          /\ Cardinality({ k \in 1..4 :
                 Mask(k, args.target_df.data[c], args.ground_truth[c[1]]) }) <= 1
    /\ \A order \in { a \in Arrangements(1..4) : Len(a) = 4 } :
          AssignedIn(order, [ c \in DOMAIN Returned.data |-> NaN ],
                     args.target_df.data, loc.gt_broadcast) = Returned.data

\* C9: detect_tsm_classifications returns a matrix with the rows and columns
\* of the signal matrix whose cell (t, c) is 1, 2, 3, 4 for the pairs
\* (prediction, truth at row t) (1,1), (-1,-1), (1,-1), (-1,1) and unset for
\* any other pair; no cell matches two rules, so the order of the four
\* assignments does not matter.
Cex_C9 == pc = "done" => CellsAsClaimed

\* the part of C9 that holds of the code: a signal matrix with at least one
\* column is classified cell by cell as claimed
TsmWithColumns == (pc = "done" /\ args.target_df.columns # {}) => CellsAsClaimed

\* a two-column matrix with a true bull, a true bear and an unset cell
TsmAllCodes ==
    /\ pc = "done"
    /\ Returned.kind = "frame"
    /\ Cardinality(Returned.columns) = 2
    /\ { Returned.data[c] : c \in DOMAIN Returned.data } \subseteq { Num(1), Num(2), NaN }
    /\ Cardinality({ Returned.data[c] : c \in DOMAIN Returned.data }) = 3

============================================================================
